---------------------------- MODULE Spec2Model ----------------------------
(***************************************************************************)
(* A model of the port scanner (src/scanner/scanner.py and                 *)
(* src/scanner3/scanner3.py): scan_port, the probe of one port, and        *)
(* port_scanner, which fans the probes out over a ThreadPoolExecutor and   *)
(* collects the results of the futures in submission order.                *)
(*                                                                         *)
(* The coordinator (the thread that called port_scanner) and the worker    *)
(* threads of the pool are the processes.  A worker runs scan_port one     *)
(* statement at a time, so that every interleaving of the probes, and      *)
(* every completion order, is a behaviour of the model.  The network and   *)
(* the operating system are the environment: the outcome of socket(),      *)
(* connect_ex(), getservbyport() and close() is chosen when the call       *)
(* is made.                                                                *)
(***************************************************************************)
EXTENDS Integers, Sequences, FiniteSets

\* ---------------------------------------------------------------- bounds
\* Ports are drawn from 1..MaxPort and the pool has at most MaxThreads
\* workers.
MaxPort == 3
MaxThreads == 2

Ports == 1..MaxPort
Workers == 1..MaxThreads

\* The highest port number and the highest thread count scanner3 accepts.
PortLimit == 65535
ThreadLimit == 1000

\* The wall-clock readings datetime.now() may give.
Timestamps == {"t1", "t2"}

\* The two variants of the program.
Variants == {"scanner", "scanner3"}

\* The default of scan_port's timeout parameter, 1.0 s.
DefaultTimeout == 1
\* The values of --timeout the model draws from: a negative one (which
\* socket.settimeout refuses), and a positive one other than the default.
TimeoutArgs == {-1, 2}

\* ------------------------------------------------------------ exceptions
\* The exceptions the calls of scan_port raise, by class.
SocketError  == [type |-> "OSError",    msg |-> "Too many open files"]
TimeoutValue == [type |-> "ValueError", msg |-> "Timeout value out of range"]
ResolveError == [type |-> "gaierror",   msg |-> "Name or service not known"]
CloseError   == [type |-> "OSError",    msg |-> "Input/output error"]
NoExc        == [type |-> "none",       msg |-> ""]

\* The return codes of connect_ex: 0 is success; the others are the errnos
\* of a refused connection (ECONNREFUSED), of a connect that timed out
\* (EAGAIN) and of an unreachable network (ENETUNREACH).
ConnectCodes == {0, 111, 11, 101}

\* repr-like text, the class name in place of the message.
StrType(e) == e.type

\* str(e)
Str(e) == e.msg

VARIABLES
    variant,      \* which program runs
    host_ok,      \* whether the host name resolves
    start_port, end_port, max_threads, timeout,   \* port_scanner's arguments
    mpc,          \* the coordinator's position in port_scanner
    next_port,    \* the next port of range(start_port, end_port + 1)
    futures,      \* the list futures, in submission order
    work_queue,   \* the executor's queue: indices into futures
    idle_semaphore, \* the executor's count of workers that went idle
    fi,           \* the position of "for future in futures"
    results,      \* the list results
    raised,       \* the exception port_scanner is propagating, or NoExc
    written,      \* the reports export_to_json has written to the file
    wpc,          \* each worker thread's position
    wfut,         \* the index of the future a worker is running (0: none)
    result,       \* scan_port's local result, per worker
    exc,          \* the exception in flight in scan_port, per worker
    sock,         \* per port: the state of the socket its probe created
    sock_timeout, \* per port: the timeout set on that socket (0: none set)
    connect_log,  \* per port: the outcomes of the connect attempts made
    lookup_log,   \* per port: the outcomes of the service lookups made
    raise_log,    \* per port: the exceptions raised inside its probe
    done_log      \* the ports in the order their probes finished

vars == <<variant, host_ok, start_port, end_port, max_threads, timeout, mpc,
          next_port, futures, work_queue, idle_semaphore, fi, results, raised,
          written, wpc, wfut,
          result, exc, sock, sock_timeout, connect_log, lookup_log, raise_log,
          done_log>>

args == <<variant, host_ok, start_port, end_port, max_threads, timeout>>
coord == <<mpc, next_port, fi, results, raised, written>>
env == <<sock, sock_timeout, connect_log, lookup_log, raise_log, done_log>>
locals == <<wfut, result, exc>>

\* The host string; its value plays no part beyond being copied around.
Host == "target"

\* scan_port's result before the probe (a dict without the key "error").
NoResult == [host |-> Host, port |-> 0, status |-> "closed", service |-> "unknown"]
InitialResult(port) ==
    [host |-> Host, port |-> port, status |-> "closed", service |-> "unknown"]

\* result[key] = value, adding the key when the dict lacks it.
SetKey(r, key, value) ==
    [k \in DOMAIN r \cup {key} |-> IF k = key THEN value ELSE r[k]]

HasError(r) == "error" \in DOMAIN r

\* socket.getservbyport(port, "tcp") when the port has an entry.
ServiceName(port) == "svc"

\* A coordinator that does not pass its timeout on.
ProbeTimeoutDefault == DefaultTimeout

\* The timeout scan_port runs with: scanner3 passes port_scanner's argument
\* on, scanner calls scan_port(host, port) and gets the default.
ProbeTimeout ==
    IF variant = "scanner3" THEN timeout ELSE DefaultTimeout

\* A worker is running scan_port.
Running == {"socket", "settimeout", "connect", "getservbyport", "exit",
            "except", "return"}
InFlight == {w \in Workers : wpc[w] \in Running}
Started == {w \in Workers : wpc[w] # "unstarted"}

PortOf(w) == futures[wfut[w]].port

\* The command lines the model draws from.  scanner3 is also given values
\* its validation refuses: a start of 0, an end above PortLimit, a thread
\* count of 0 or above ThreadLimit.  scanner, which validates nothing and
\* has no --timeout option, is given ports of 1..MaxPort in either order.
Init ==
    /\ variant \in Variants
    /\ host_ok \in BOOLEAN
    /\ IF variant = "scanner3"
       THEN /\ start_port \in {0} \cup Ports
            /\ end_port \in Ports \cup {PortLimit + 1}
            /\ max_threads \in {0} \cup Workers \cup {ThreadLimit + 1}
            /\ timeout \in TimeoutArgs \cup {DefaultTimeout}
       ELSE /\ start_port \in Ports
            /\ end_port \in Ports
            /\ max_threads \in Workers
            /\ timeout = DefaultTimeout
    /\ mpc = "main"
    /\ written = {}
    /\ next_port = start_port
    /\ futures = <<>>
    /\ work_queue = <<>>
    /\ idle_semaphore = 0
    /\ fi = 1
    /\ results = <<>>
    /\ raised = NoExc
    /\ wpc = [w \in Workers |-> "unstarted"]
    /\ wfut = [w \in Workers |-> 0]
    /\ result = [w \in Workers |-> NoResult]
    /\ exc = [w \in Workers |-> NoExc]
    /\ sock = [p \in Ports |-> "none"]
    /\ sock_timeout = [p \in Ports |-> 0]
    /\ connect_log = [p \in Ports |-> <<>>]
    /\ lookup_log = [p \in Ports |-> <<>>]
    /\ raise_log = [p \in Ports |-> <<>>]
    /\ done_log = <<>>

\* ------------------------------------------------------------------ main
\* A range check that forgets the order of start and end.
BadRangeNoOrder == start_port < 1 \/ end_port > PortLimit

\* scanner3's checks of the parsed arguments, each ending in parser.error.
BadRange == start_port < 1 \/ end_port > PortLimit \/ start_port > end_port
BadThreads == max_threads < 1 \/ max_threads > ThreadLimit
Unresolved == ~host_ok

\* Whether __main__ refuses the command line: scanner3 validates, scanner
\* does not.
Rejected ==
    variant = "scanner3" /\ (BadRange \/ BadThreads \/ Unresolved)

\* __main__ up to the call of port_scanner: parser.error prints the usage
\* error and exits with a non-zero status.
Main ==
    /\ mpc = "main"
    /\ mpc' = IF Rejected THEN "usage_error" ELSE "submit"
    /\ UNCHANGED <<args, next_port, futures, work_queue, idle_semaphore, fi,
                   results, raised, written, wpc, locals, env>>

\* A report that keeps the open ports only.
IsOpen(r) == r.status = "open"
OpenOnly(data) == SelectSeq(data, IsOpen)

\* The list the report carries: data itself.
ScanResults(data) == data

\* data[0]["host"] if data else "unknown"
ReportHost(data) == IF data # <<>> THEN data[1].host ELSE "unknown"

\* The report export_to_json builds from data at time now.
Report(data, now) ==
    [timestamp |-> now, host |-> ReportHost(data), scan_results |-> ScanResults(data)]

\* __main__ after port_scanner has returned: export_to_json(results, ...)
\* writes the report, the summary is printed and the run ends.
Export ==
    /\ mpc = "returned"
    /\ \E now \in Timestamps : written' = written \cup {Report(results, now)}
    /\ mpc' = "done"
    /\ UNCHANGED <<args, next_port, futures, work_queue, idle_semaphore, fi,
                   results, raised, wpc, locals, env>>

\* ----------------------------------------------------------- coordinator
\* A future of the executor: PENDING when submitted, RUNNING while a worker
\* runs its call, FINISHED with the call's result or exception.
NewFuture(port) ==
    [port |-> port, state |-> "PENDING", result |-> NoResult, exception |-> NoExc]

\* The lowest-numbered thread not started yet.
NextThread == CHOOSE w \in Workers \ Started : \A v \in Workers \ Started : w <= v

\* A pool that stops one thread short of max_workers.
MaySpawnOffByOne == Cardinality(Started) < max_threads - 1

\* A pool that starts a thread for every submission, whatever max_workers.
MaySpawnUnbounded == Started # Workers

\* ThreadPoolExecutor._adjust_thread_count: a worker that went idle takes
\* the new item; otherwise a thread is started while fewer than max_workers
\* exist.
MaySpawn == Cardinality(Started) < max_threads

\* A range that puts its ends in order first.
PortRangeEitherOrder ==
    IF start_port <= end_port THEN start_port..end_port ELSE end_port..start_port

\* range(start_port, end_port), which leaves the last port out.
PortRangeExclusive == start_port..(end_port - 1)

\* range(start_port, end_port + 1)
PortRange == start_port..end_port

\* One executor.submit(scan_port, host, port, ...) of the list
\* comprehension, or its end when the range is exhausted.
Submit ==
    /\ mpc = "submit"
    /\ IF next_port \in PortRange
       THEN /\ futures' = Append(futures, NewFuture(next_port))
            /\ work_queue' = Append(work_queue, Len(futures) + 1)
            /\ next_port' = next_port + 1
            /\ IF idle_semaphore > 0
               THEN idle_semaphore' = idle_semaphore - 1 /\ wpc' = wpc
               ELSE /\ idle_semaphore' = idle_semaphore
                    /\ wpc' = IF MaySpawn
                              THEN [wpc EXCEPT ![NextThread] = "idle"]
                              ELSE wpc
            /\ mpc' = mpc
       ELSE /\ mpc' = "collect"
            /\ UNCHANGED <<next_port, futures, work_queue, idle_semaphore, wpc>>
    /\ UNCHANGED <<args, fi, results, raised, written, locals, env>>

\* A collection that does not wait for the future.
DoneNoWait(f) == TRUE

\* future.result() returns once the future is finished.
Done(f) == f.state = "FINISHED"

\* The futures that are finished and whose result is not in results yet.
Uncollected ==
    {j \in 1..Len(futures) :
        /\ futures[j].state = "FINISHED"
        /\ \A i \in 1..Len(results) : results[i].port # futures[j].port}

\* Collection in completion order, as as_completed(futures) gives it: the
\* highest-numbered finished future not collected yet.
CurrentCompleted ==
    IF Uncollected = {} THEN fi
    ELSE CHOOSE j \in Uncollected : \A k \in Uncollected : k <= j

\* The future the loop "for future in futures" is at.
Current == fi

\* One turn of "for future in futures: results.append(future.result())":
\* future.result() blocks until the future is finished, returns its result
\* or raises its exception; the loop ends after the last future.
Collect ==
    /\ mpc = "collect"
    /\ IF fi > Len(futures)
       THEN mpc' = "shutdown" /\ UNCHANGED <<fi, results, raised>>
       ELSE /\ Done(futures[Current])
            /\ IF futures[Current].exception # NoExc
               THEN /\ raised' = futures[Current].exception
                    /\ mpc' = "shutdown"
                    /\ UNCHANGED <<fi, results>>
               ELSE /\ results' = Append(results, futures[Current].result)
                    /\ fi' = fi + 1
                    /\ UNCHANGED <<mpc, raised>>
    /\ UNCHANGED <<args, next_port, futures, work_queue, idle_semaphore, wpc,
                   written, locals, env>>

\* The end of the with block: executor.shutdown(wait=True) joins every
\* worker thread, then port_scanner returns results or the exception goes on.
Shutdown ==
    /\ mpc = "shutdown"
    /\ \A w \in Workers : wpc[w] \in {"unstarted", "exited"}
    /\ mpc' = IF raised = NoExc THEN "returned" ELSE "raised"
    /\ UNCHANGED <<args, next_port, futures, work_queue, idle_semaphore, fi,
                   results, raised, written, wpc, locals, env>>

\* ---------------------------------------------------------------- workers
\* A worker takes the oldest work item and calls scan_port, which builds
\* its result dict.
Take(w) ==
    /\ wpc[w] = "idle"
    /\ work_queue # <<>>
    /\ wfut' = [wfut EXCEPT ![w] = Head(work_queue)]
    /\ work_queue' = Tail(work_queue)
    /\ futures' = [futures EXCEPT ![Head(work_queue)].state = "RUNNING"]
    /\ result' = [result EXCEPT ![w] = InitialResult(futures[Head(work_queue)].port)]
    /\ wpc' = [wpc EXCEPT ![w] = "socket"]
    /\ UNCHANGED <<args, coord, idle_semaphore, exc, env>>

\* socket.socket(AF_INET, SOCK_STREAM): a socket, or OSError.
Socket(w) ==
    /\ wpc[w] = "socket"
    /\ \/ /\ sock' = [sock EXCEPT ![PortOf(w)] = "open"]
          /\ wpc' = [wpc EXCEPT ![w] = "settimeout"]
          /\ UNCHANGED <<exc, raise_log>>
       \/ /\ exc' = [exc EXCEPT ![w] = SocketError]
          /\ raise_log' = [raise_log EXCEPT ![PortOf(w)] = Append(@, SocketError)]
          /\ wpc' = [wpc EXCEPT ![w] = "except"]
          /\ sock' = sock
    /\ UNCHANGED <<args, coord, futures, work_queue, idle_semaphore, wfut,
                   result, sock_timeout, connect_log, lookup_log, done_log>>

\* s.settimeout(timeout): ValueError for a negative timeout.
SetTimeout(w) ==
    /\ wpc[w] = "settimeout"
    /\ IF ProbeTimeout < 0
       THEN /\ exc' = [exc EXCEPT ![w] = TimeoutValue]
            /\ raise_log' = [raise_log EXCEPT ![PortOf(w)] = Append(@, TimeoutValue)]
            /\ wpc' = [wpc EXCEPT ![w] = "exit"]
            /\ sock_timeout' = sock_timeout
       ELSE /\ sock_timeout' = [sock_timeout EXCEPT ![PortOf(w)] = ProbeTimeout]
            /\ wpc' = [wpc EXCEPT ![w] = "connect"]
            /\ UNCHANGED <<exc, raise_log>>
    /\ UNCHANGED <<args, coord, futures, work_queue, idle_semaphore, wfut,
                   result, sock, connect_log, lookup_log, done_log>>

\* How a connect attempt ended, for the log.
Outcome(rc) == IF rc = 0 THEN "ok" ELSE "errno"

\* The test "if s.connect_ex((host, port))", true of the error codes.
SucceededTruthy(rc) == rc # 0

\* The test "s.connect_ex((host, port)) == 0".
Succeeded(rc) == rc = 0

\* A probe that tries the connect again after an error code.
AfterFailedConnectRetry == "connect"

\* Where scan_port goes on after connect_ex returned an error code: out of
\* the with block, without another attempt.
AfterFailedConnect == "exit"

\* if s.connect_ex((host, port)) == 0: result["status"] = "open".
\* connect_ex returns the errno of a failed connect and raises when the
\* host name does not resolve.
Connect(w) ==
    /\ wpc[w] = "connect"
    /\ IF ~host_ok
       THEN /\ connect_log' = [connect_log EXCEPT ![PortOf(w)] = Append(@, "raised")]
            /\ exc' = [exc EXCEPT ![w] = ResolveError]
            /\ raise_log' = [raise_log EXCEPT ![PortOf(w)] = Append(@, ResolveError)]
            /\ wpc' = [wpc EXCEPT ![w] = "exit"]
            /\ result' = result
       ELSE \E rc \in ConnectCodes :
            /\ connect_log' = [connect_log EXCEPT ![PortOf(w)] = Append(@, Outcome(rc))]
            /\ UNCHANGED <<exc, raise_log>>
            /\ IF Succeeded(rc)
               THEN /\ result' = [result EXCEPT ![w] = SetKey(@, "status", "open")]
                    /\ wpc' = [wpc EXCEPT ![w] = "getservbyport"]
               ELSE /\ result' = result
                    /\ wpc' = [wpc EXCEPT ![w] = AfterFailedConnect]
    /\ UNCHANGED <<args, coord, futures, work_queue, idle_semaphore, wfut,
                   sock, sock_timeout, lookup_log, done_log>>

\* A handler that records the failed lookup in the result.
LookupFailedRecorded(r) ==
    [k \in DOMAIN r \cup {"error"} |-> IF k = "error" THEN "port/proto not found" ELSE r[k]]

\* The handler of a failed lookup, "except: pass": the result is left as
\* it is.
LookupFailed(r) == r

\* try: result["service"] = socket.getservbyport(port, "tcp")
\* except: pass
GetServByPort(w) ==
    /\ wpc[w] = "getservbyport"
    /\ \/ /\ result' = [result EXCEPT ![w] = SetKey(@, "service", ServiceName(PortOf(w)))]
          /\ lookup_log' = [lookup_log EXCEPT ![PortOf(w)] = Append(@, "found")]
       \/ /\ result' = [result EXCEPT ![w] = LookupFailed(@)]
          /\ lookup_log' = [lookup_log EXCEPT ![PortOf(w)] = Append(@, "failed")]
    /\ wpc' = [wpc EXCEPT ![w] = "exit"]
    /\ UNCHANGED <<args, coord, futures, work_queue, idle_semaphore, wfut,
                   exc, sock, sock_timeout, connect_log, raise_log, done_log>>

\* The end of "with socket.socket(...) as s": s.close().  The descriptor
\* is released whether or not close reports an error; an error of close
\* replaces the exception in flight.
\* A close placed after the connect, reached only when nothing was raised.
AfterManualClose(e) == IF e = NoExc THEN "closed" ELSE "open"

\* The socket after the with block was left with exception e in flight
\* (NoExc: none): __exit__ closes it on every path.
AfterWith(e) == "closed"

Exit(w) ==
    /\ wpc[w] = "exit"
    /\ sock' = [sock EXCEPT ![PortOf(w)] = AfterWith(exc[w])]
    /\ \/ /\ UNCHANGED <<exc, raise_log>>
          /\ wpc' = [wpc EXCEPT ![w] = IF exc[w] = NoExc THEN "return" ELSE "except"]
       \/ /\ exc' = [exc EXCEPT ![w] = CloseError]
          /\ raise_log' = [raise_log EXCEPT ![PortOf(w)] = Append(@, CloseError)]
          /\ wpc' = [wpc EXCEPT ![w] = "except"]
    /\ UNCHANGED <<args, coord, futures, work_queue, idle_semaphore, wfut,
                   result, sock_timeout, connect_log, lookup_log, done_log>>

\* "except OSError": socket errors alone.
CaughtSocketErrors(e) == e.type \in {"OSError", "gaierror"}

\* No except clause around the probe.
CaughtNothing(e) == FALSE

\* "except Exception": the classes of exception the clause catches.
Caught(e) == e.type \in {"OSError", "ValueError", "gaierror"}

\* except Exception as e: result["error"] = str(e).  An exception the
\* clause does not catch leaves scan_port: the executor stores it in the
\* future and the worker goes back to the queue.
Except(w) ==
    /\ wpc[w] = "except"
    /\ IF Caught(exc[w])
       THEN /\ result' = [result EXCEPT ![w] = SetKey(@, "error", Str(exc[w]))]
            /\ wpc' = [wpc EXCEPT ![w] = "return"]
            /\ UNCHANGED <<futures, wfut, idle_semaphore, done_log>>
       ELSE /\ futures' = [futures EXCEPT ![wfut[w]].state = "FINISHED",
                                          ![wfut[w]].exception = exc[w]]
            /\ done_log' = Append(done_log, PortOf(w))
            /\ result' = [result EXCEPT ![w] = NoResult]
            /\ wfut' = [wfut EXCEPT ![w] = 0]
            /\ wpc' = [wpc EXCEPT ![w] = "idle"]
            /\ idle_semaphore' = idle_semaphore + 1
    /\ exc' = [exc EXCEPT ![w] = NoExc]
    /\ UNCHANGED <<args, coord, work_queue, sock, sock_timeout, connect_log,
                   lookup_log, raise_log>>

\* return result: the executor stores it in the future, and the worker
\* goes back to the queue.
Return(w) ==
    /\ wpc[w] = "return"
    /\ futures' = [futures EXCEPT ![wfut[w]].state = "FINISHED",
                                  ![wfut[w]].result = result[w]]
    /\ result' = [result EXCEPT ![w] = NoResult]
    /\ wfut' = [wfut EXCEPT ![w] = 0]
    /\ wpc' = [wpc EXCEPT ![w] = "idle"]
    /\ idle_semaphore' = idle_semaphore + 1
    /\ done_log' = Append(done_log, PortOf(w))
    /\ UNCHANGED <<args, coord, work_queue, exc, sock, sock_timeout, connect_log,
                   lookup_log, raise_log>>

\* After shutdown a worker that finds the queue empty ends.
WorkerExit(w) ==
    /\ mpc = "shutdown"
    /\ wpc[w] = "idle"
    /\ work_queue = <<>>
    /\ wpc' = [wpc EXCEPT ![w] = "exited"]
    /\ UNCHANGED <<args, coord, futures, work_queue, idle_semaphore, locals, env>>

Worker(w) ==
    \/ Take(w)
    \/ Socket(w)
    \/ SetTimeout(w)
    \/ Connect(w)
    \/ GetServByPort(w)
    \/ Exit(w)
    \/ Except(w)
    \/ Return(w)
    \/ WorkerExit(w)

Next ==
    \/ Main
    \/ Export
    \/ Submit
    \/ Collect
    \/ Shutdown
    \/ \E w \in Workers : Worker(w)

Spec == Init /\ [][Next]_vars

\* The scheduling the liveness claims rest on: the main thread and every
\* worker thread keep being scheduled, and every blocking call (connect_ex
\* within its timeout, future.result(), the join of shutdown) returns once
\* it can.
Fairness ==
    /\ WF_vars(Main)
    /\ WF_vars(Submit)
    /\ WF_vars(Collect)
    /\ WF_vars(Shutdown)
    /\ WF_vars(Export)
    /\ \A w \in Workers : WF_vars(Worker(w))

FairSpec == Spec /\ Fairness

TypeOK ==
    /\ mpc \in {"main", "usage_error", "submit", "collect", "shutdown",
               "returned", "raised", "done"}
    /\ \A w \in Workers : wpc[w] \in Running \cup {"unstarted", "idle", "exited"}
    /\ idle_semaphore \in 0..(MaxPort + 1)
    /\ Len(futures) <= MaxPort

\* ------------------------------------------------------------- properties
Returned == mpc = "returned"
ValidRange == 1 <= start_port /\ start_port <= end_port /\ end_port <= MaxPort
\* The futures whose call has returned a result.
Finished == {i \in 1..Len(futures) :
                futures[i].state = "FINISHED" /\ futures[i].exception = NoExc}
RunningFutures == {i \in 1..Len(futures) : futures[i].state = "RUNNING"}
EntriesOf(p) == {i \in 1..Len(results) : results[i].port = p}

\* C1: for a valid range and max_threads >= 1, the sequence port_scanner
\* returns has end_port - start_port + 1 entries and every port of the range
\* is the port of exactly one entry, whatever the interleaving.
C1_OnePerPort ==
    (Returned /\ ValidRange /\ max_threads >= 1) =>
        /\ Len(results) = end_port - start_port + 1
        /\ \A p \in start_port..end_port : Cardinality(EntriesOf(p)) = 1
        /\ \A i \in 1..Len(results) : results[i].port \in start_port..end_port

\* A scan of all MaxPort ports by two workers has returned.
C1_Witness ==
    /\ Returned
    /\ start_port = 1 /\ end_port = MaxPort /\ max_threads = 2
    /\ Len(results) = MaxPort

\* C2: the returned sequence is in ascending port order, the i-th entry
\* being the result for port start_port + i - 1, whatever the order in
\* which the probes finished.
C2_SubmissionOrder ==
    Returned => \A i \in 1..Len(results) : results[i].port = start_port + i - 1

\* A scan has returned in which the probe of a higher port finished before
\* the probe of a lower port.
C2_Witness ==
    /\ Returned
    /\ Len(results) >= 2
    /\ \E i, j \in 1..Len(done_log) : i < j /\ done_log[i] > done_log[j]

\* C3: at any time at most max_threads probes have started and not yet
\* returned, also when the range has more ports than max_threads.
C3_ConcurrencyBound ==
    /\ Cardinality(RunningFutures) <= max_threads
    /\ Cardinality(InFlight) <= max_threads

\* max_threads probes are running while a further port waits in the queue.
C3_Witness ==
    /\ Len(futures) > max_threads
    /\ Cardinality(RunningFutures) = max_threads
    /\ work_queue # <<>>

\* C4: a probe's result has status open if and only if its connect attempt
\* succeeded; after every other outcome the status is closed.
C4_OpenIffConnected ==
    \A i \in Finished :
        /\ futures[i].result.status \in {"open", "closed"}
        /\ futures[i].result.status = "open" <=>
               connect_log[futures[i].port] = <<"ok">>

\* A scan has returned with an open port, a port whose connect returned an
\* error code, and a port whose probe raised.
C4_Witness ==
    /\ Returned
    /\ \E i, j, k \in 1..Len(results) :
        /\ results[i].status = "open"
        /\ connect_log[results[i].port] = <<"ok">>
        /\ results[j].status = "closed"
        /\ connect_log[results[j].port] = <<"errno">>
        /\ results[k].status = "closed"
        /\ raise_log[results[k].port] # <<>>
        /\ connect_log[results[k].port] = <<>>

Last(seq) == seq[Len(seq)]
ConnectFailed(p) == connect_log[p] \in {<<"errno">>, <<"raised">>}

\* C5, as claimed: whenever the connect attempt fails, by a raised
\* exception or by a non-zero return code, the result has status closed
\* and an error field.
C5_ErrorOnEveryFailure ==
    \A i \in Finished :
        ConnectFailed(futures[i].port) =>
            /\ futures[i].result.status = "closed"
            /\ HasError(futures[i].result)

\* C5, amended: whenever the connect attempt fails the result has status
\* closed.  A failure connect_ex raises (the host name does not resolve)
\* leaves an error field with the message of the last exception raised in
\* the probe; a failure connect_ex reports as a non-zero return code leaves
\* no error field, unless the close of the socket raises afterwards, and
\* then the field holds the message of that.
C5_ErrorOnlyWhenRaised ==
    \A i \in Finished :
        LET p == futures[i].port
            r == futures[i].result
        IN  /\ ConnectFailed(p) => r.status = "closed"
            /\ connect_log[p] = <<"raised">> =>
                   /\ HasError(r)
                   /\ r.error = Last(raise_log[p]).msg
                   /\ raise_log[p][1] = ResolveError
            /\ connect_log[p] = <<"errno">> =>
                   /\ HasError(r) <=> raise_log[p] = <<CloseError>>
                   /\ HasError(r) => r.error = CloseError.msg

\* A scan has returned with a port whose connect returned an error code:
\* its entry is closed and has no error field.
C5_Witness ==
    /\ Returned
    /\ \E i \in 1..Len(results) :
        /\ connect_log[results[i].port] = <<"errno">>
        /\ results[i].status = "closed"
        /\ ~HasError(results[i])

\* An entry with the four keys scan_port always sets, and at most "error"
\* besides.
WellFormed(r) ==
    /\ {"host", "port", "status", "service"} \subseteq DOMAIN r
    /\ DOMAIN r \subseteq {"host", "port", "status", "service", "error"}
    /\ r.host = Host
    /\ r.port \in PortRange
    /\ r.status \in {"open", "closed"}
    /\ r.service \in {"unknown"} \cup {ServiceName(q) : q \in Ports}

\* C6: an error raised inside the probe of one port does not end the
\* coordinator: port_scanner never leaves by an exception, and when it
\* returns every port of the range has one well-formed entry, of which
\* only those of the ports whose probe raised carry an error.
C6_FailureIsolation ==
    /\ mpc # "raised"
    /\ raised = NoExc
    /\ Returned =>
           \A p \in PortRange :
               /\ Cardinality(EntriesOf(p)) = 1
               /\ \A i \in EntriesOf(p) :
                      /\ WellFormed(results[i])
                      /\ HasError(results[i]) <=> raise_log[p] # <<>>

\* A scan has returned in which the probe of one port raised and the
\* probes of the other ports did not; their entries carry no error.
C6_Witness ==
    /\ Returned
    /\ Len(results) = MaxPort
    /\ \E p \in PortRange :
        /\ raise_log[p] # <<>>
        /\ \A q \in PortRange \ {p} : raise_log[q] = <<>>
        /\ \A i \in 1..Len(results) :
               results[i].port # p => WellFormed(results[i]) /\ ~HasError(results[i])

\* C7: scan_port never raises to its caller: an exception raised while
\* creating the socket, setting its timeout, connecting or closing ends in
\* the error field of the result, which has host, port, status and service
\* set.
C7_NoRaise ==
    \A i \in 1..Len(futures) :
        /\ futures[i].exception = NoExc
        /\ futures[i].state = "FINISHED" =>
               LET p == futures[i].port
                   r == futures[i].result
               IN  /\ {"host", "port", "status", "service"} \subseteq DOMAIN r
                   /\ r.host = Host /\ r.port = p
                   /\ raise_log[p] # <<>> =>
                          HasError(r) /\ r.error = Last(raise_log[p]).msg

\* A probe has returned after an exception of settimeout() or of
\* connect_ex() followed by an exception of close(): its result carries
\* the message of the last one.
C7_Witness ==
    \E i \in Finished :
        LET p == futures[i].port
        IN  /\ Len(raise_log[p]) = 2
            /\ raise_log[p][1] \in {TimeoutValue, ResolveError}
            /\ raise_log[p][2] = CloseError
            /\ futures[i].result.error = CloseError.msg

\* C8: port_scanner returns only after every probe it scheduled has
\* completed: when it returns no probe is pending or in flight, and the
\* returned sequence holds the result of every port of the range.
C8_ReturnsAfterAll ==
    Returned =>
        /\ work_queue = <<>>
        /\ InFlight = {}
        /\ \A i \in 1..Len(futures) : futures[i].state = "FINISHED"
        /\ Len(futures) = Cardinality(PortRange)
        /\ Len(results) = Len(futures)
        /\ \A i \in 1..Len(results) : results[i] = futures[i].result
        /\ {results[i].port : i \in 1..Len(results)} = PortRange

\* A scan of more ports than workers has returned, in which the probe of
\* the first port was not the first to finish.
C8_Witness ==
    /\ Returned
    /\ Len(results) = MaxPort
    /\ max_threads < MaxPort
    /\ done_log # <<>> /\ done_log[1] # start_port

OpenSockets == {p \in Ports : sock[p] = "open"}

\* C9: when a probe returns its socket is closed, on every path; so after
\* port_scanner returns no socket of the scan is open, and at any time
\* there are at most as many open sockets as probes in flight.
C9_SocketsClosed ==
    /\ \A i \in 1..Len(futures) :
           futures[i].state = "FINISHED" => sock[futures[i].port] # "open"
    /\ mpc \in {"returned", "raised"} => OpenSockets = {}
    /\ Cardinality(OpenSockets) <= Cardinality(RunningFutures)
    /\ \A p \in OpenSockets : \E w \in InFlight : PortOf(w) = p

\* A scan has returned after a probe that connected, a probe whose connect
\* returned an error code and a probe that ended by an exception with its
\* socket open; the three sockets are closed.
C9_Witness ==
    /\ Returned
    /\ \E p, q, r \in PortRange :
        /\ connect_log[p] = <<"ok">> /\ raise_log[p] = <<>>
        /\ connect_log[q] = <<"errno">> /\ raise_log[q] = <<>>
        /\ raise_log[r] = <<CloseError>>
        /\ sock[p] = "closed" /\ sock[q] = "closed" /\ sock[r] = "closed"

LookupFailedAt(p) == connect_log[p] = <<"ok">> /\ lookup_log[p] = <<"failed">>

\* C10, as claimed: when the connect succeeds and the service lookup
\* fails, the result has status open, service "unknown" and no error
\* field.
C10_LookupFailureNoError ==
    \A i \in Finished :
        LookupFailedAt(futures[i].port) =>
            /\ futures[i].result.status = "open"
            /\ futures[i].result.service = "unknown"
            /\ ~HasError(futures[i].result)

\* C10, amended: when the connect succeeds and the service lookup fails,
\* the result has status open and service "unknown", and the lookup
\* failure puts no error field in it: the result has an error field only
\* when the close of the socket raises afterwards, and the field then
\* holds the message of that.
C10_LookupFailureSwallowed ==
    /\ \A i \in Finished :
           LookupFailedAt(futures[i].port) =>
               /\ futures[i].result.status = "open"
               /\ futures[i].result.service = "unknown"
               /\ HasError(futures[i].result) <=>
                      raise_log[futures[i].port] = <<CloseError>>
               /\ HasError(futures[i].result) =>
                      futures[i].result.error = CloseError.msg
    /\ \A w \in Workers :
           (wpc[w] = "exit" /\ LookupFailedAt(PortOf(w))) =>
               ~HasError(result[w]) /\ exc[w] = NoExc

\* A scan has returned with a port that connected and whose lookup failed:
\* its entry is open, "unknown" and has no error field.
C10_Witness ==
    /\ Returned
    /\ \E i \in 1..Len(results) :
        /\ LookupFailedAt(results[i].port)
        /\ results[i].status = "open"
        /\ results[i].service = "unknown"
        /\ ~HasError(results[i])

NoNetworkActivity ==
    /\ futures = <<>>
    /\ work_queue = <<>>
    /\ Started = {}
    /\ \A p \in Ports :
           sock[p] = "none" /\ connect_log[p] = <<>> /\ raise_log[p] = <<>>

\* C11: in scanner3, when start < 1, end > 65535, start > end, threads is
\* outside 1..1000 or the host does not resolve, the run ends in the usage
\* error before port_scanner is called: no probe is scheduled, no connect
\* is attempted and no report is written.
C11_RejectedBeforeScan ==
    (/\ variant = "scanner3"
     /\ \/ start_port < 1
        \/ end_port > 65535
        \/ start_port > end_port
        \/ max_threads < 1
        \/ max_threads > 1000
        \/ ~host_ok) =>
        /\ mpc \in {"main", "usage_error"}
        /\ NoNetworkActivity
        /\ results = <<>>
        /\ written = {}

\* scanner3 has ended in the usage error for a range whose start is above
\* its end, everything else being valid.
C11_Witness ==
    /\ variant = "scanner3"
    /\ mpc = "usage_error"
    /\ 1 <= start_port /\ end_port < start_port
    /\ max_threads \in Workers
    /\ host_ok

\* C12: the report export_to_json builds has the host of the first result,
\* or "unknown" when there is no result, and its scan_results is the input
\* sequence: same length, same order, every entry unchanged.
C12_ReportPassThrough ==
    \A rep \in written :
        /\ results # <<>> => rep.host = results[1].host /\ rep.host = Host
        /\ results = <<>> => rep.host = "unknown"
        /\ Len(rep.scan_results) = Len(results)
        /\ \A i \in 1..Len(results) : rep.scan_results[i] = results[i]

\* A report was written for a scan with an open port and a closed port
\* whose entry carries an error.
C12_Witness ==
    /\ mpc = "done"
    /\ \E rep \in written :
        /\ rep.host = Host
        /\ Len(rep.scan_results) >= 2
        /\ \E i, j \in 1..Len(rep.scan_results) :
               /\ i < j
               /\ rep.scan_results[i].status = "closed"
               /\ HasError(rep.scan_results[i])
               /\ rep.scan_results[j].status = "open"

\* The entry for port p as the outcomes its own probe met determine it:
\* the connect outcome, the lookup outcome and the exceptions raised.
EntryFor(p) ==
    LET status == IF connect_log[p] = <<"ok">> THEN "open" ELSE "closed"
        service == IF lookup_log[p] = <<"found">> THEN ServiceName(p) ELSE "unknown"
    IN  IF raise_log[p] = <<>>
        THEN [host |-> Host, port |-> p, status |-> status, service |-> service]
        ELSE [host |-> Host, port |-> p, status |-> status, service |-> service,
              error |-> Last(raise_log[p]).msg]

Submitted(p) == \E i \in 1..Len(futures) : futures[i].port = p
Probed(p) ==
    \E i \in 1..Len(futures) : futures[i].port = p /\ futures[i].state = "FINISHED"

\* C14: when every connect attempt finishes and the threads are scheduled
\* fairly, every submitted port is eventually probed and port_scanner
\* eventually returns, for every max_threads >= 1 and every range, also
\* one with more ports than workers.
C14_EventuallyReturns ==
    (mpc = "submit") ~>
        (/\ mpc \in {"returned", "done"}
         /\ \A p \in PortRange : Submitted(p) /\ Probed(p))

\* A scan of more ports than workers has returned with every port probed.
C14_Witness ==
    /\ Returned
    /\ Len(results) = MaxPort
    /\ max_threads < MaxPort
    /\ \A p \in PortRange : Probed(p)

Attempts(p) == Len(connect_log[p])

\* C15, as claimed: in one call of port_scanner exactly one connect attempt
\* is made for each port of the range.
C15_ExactlyOneAttempt ==
    mpc \in {"returned", "done"} => \A p \in PortRange : Attempts(p) = 1

\* C15, amended: at most one connect attempt is ever made for a port, no
\* port is probed by two workers, and when port_scanner has returned the
\* ports of the range with exactly one attempt are those whose probe got
\* its socket and set its timeout; a probe in which socket() or
\* settimeout() raised made none.  Ports outside the range are never
\* attempted.
C15_AtMostOneAttempt ==
    /\ \A p \in Ports : Attempts(p) <= 1
    /\ \A p \in Ports \ PortRange : Attempts(p) = 0
    /\ \A i, j \in 1..Len(futures) : futures[i].port = futures[j].port => i = j
    /\ \A v, w \in InFlight : PortOf(v) = PortOf(w) => v = w
    /\ mpc \in {"returned", "done"} =>
           \A p \in PortRange :
               /\ Attempts(p) = 0 <=>
                      (raise_log[p] # <<>> /\ raise_log[p][1] \in {SocketError, TimeoutValue}
                          /\ sock_timeout[p] = 0)
               /\ Attempts(p) = 1 <=> sock_timeout[p] # 0

\* A scan has returned in which one port's connect returned an error code
\* and was not tried again, and another port's probe failed in socket()
\* and made no attempt.
C15_Witness ==
    /\ Returned
    /\ \E p, q \in PortRange :
        /\ connect_log[p] = <<"errno">>
        /\ raise_log[q] = <<SocketError>> /\ Attempts(q) = 0

\* C16, as claimed: in both variants, for every port of the range the
\* timeout of the probe's socket is the coordinator's timeout argument.
C16_TimeoutOnEverySocket ==
    mpc \in {"returned", "done"} =>
        \A p \in PortRange : sock_timeout[p] = timeout

\* C16, amended: in scanner3 every timeout a probe sets on its socket, and
\* so the timeout of every connect attempt, is port_scanner's timeout
\* argument; a negative argument is refused by settimeout, no socket gets a
\* timeout and no connect is attempted.  In scanner port_scanner has no
\* timeout argument and every probe sets the default of scan_port, 1.
C16_TimeoutPassedOn ==
    \A p \in Ports :
        /\ Attempts(p) > 0 => sock_timeout[p] # 0
        /\ variant = "scanner3" =>
               /\ sock_timeout[p] # 0 => sock_timeout[p] = timeout
               /\ timeout < 0 => sock_timeout[p] = 0 /\ Attempts(p) = 0
        /\ variant = "scanner" =>
               (sock_timeout[p] # 0 => sock_timeout[p] = 1)

\* scanner3 has returned from a scan with a timeout other than the
\* default, and every port was connected to with that timeout.
C16_Witness ==
    /\ Returned
    /\ variant = "scanner3"
    /\ timeout # DefaultTimeout
    /\ Len(results) >= 2
    /\ \A p \in PortRange : Attempts(p) = 1 /\ sock_timeout[p] = timeout

=============================================================================
